---- MODULE Spec2Model ----
(***************************************************************************)
(* Hourly scheduling and missed-hour reconciliation of the Accountability  *)
(* application: the activities table (database.py), the ActivityScheduler  *)
(* (scheduler.py), the application's timers and reminder flag (app.py) and *)
(* the recording paths of the user interface (ui/reminder.py,              *)
(* ui/main_window.py); the hour enumeration of utils/time_utils.py and the *)
(* analysis cache of ai_analysis.py and ui/analysis_widget.py, each under  *)
(* a specification of its own.                                             *)
(*                                                                         *)
(* Time is a count of seconds since 2024-01-01T00:00:00 local time; a      *)
(* handler runs at one clock instant.  The clock has one-second            *)
(* resolution.                                                             *)
(***************************************************************************)
EXTENDS Integers, Sequences, FiniteSets, TLC

VARIABLES
    clock,              \* wall clock, datetime.now()
    ticks,              \* number of clock advances so far (bounds the run)
    writes,             \* number of record_activity calls so far, the ones that
                        \* raised included (bounds the run)
    activities,         \* rows of the activities table, in rowid order
    scheduler,          \* fields of the ActivityScheduler object
    running,            \* the process is started (AccountabilityApp.start ran)
    reminder_showing,   \* AccountabilityApp.reminder_showing
    dialogs,            \* open ReminderDialog objects: each its list self.hours
    check_due,          \* instant check_timer (60 s) times out next
    hourly_due,         \* instant hourly_timer times out next
    lastOp,             \* name of the handler that ran last
    lastArg,            \* hours list the last handler passed to record_activity
    lastText,           \* activity text the last handler passed to record_activity
    checkLog,           \* the check_schedule calls of the last handler
    returned,           \* what get_missed_hours() returned last in the last
                        \* handler, None if the handler did not call it
    emitLog,            \* counts missed_hours_changed emitted in the last handler
    lastEmitted,        \* count of the latest emission before the last handler
    raised,             \* store operation whose error left the last handler
                        \* uncaught and ended the process, "" if it returned
    failed,             \* hours whose add_activity raised
    between,            \* the last get_hours_between call: arguments and result
    analysis_results,   \* rows of the analysis_results table, in rowid order
    lastAnalysis        \* the last call into the analysis cache and its result

vars == <<clock, ticks, writes, activities, scheduler, running, reminder_showing,
          dialogs, check_due, hourly_due, lastOp, lastArg, lastText,
          checkLog,
          returned, emitLog, lastEmitted, raised, failed,
          between, analysis_results, lastAnalysis>>

\* Python's None where an instant or a count is expected (instants are >= 0)
None == 0 - 1

\* no get_missed_hours() call, where a returned list is expected
NoCall == <<None>>

----------------------------------------------------------------------------
(* Bounds of the model *)

MaxTicks == 1          \* clock advances in one behaviour
MaxWrites == 2         \* record_activity calls in one behaviour
MaxAnalyses == 2       \* rows ever inserted into analysis_results
MaxDialogs == 2        \* reminder dialogs open at once (ApiSpec)

(* Program constants *)

HourSecs == 3600       \* timedelta(hours=1)
MinuteSecs == 60       \* check_timer.start(60000)
NewHourMinutes == 5    \* is_new_hour: current_minute < 5
SafetySecs == 1        \* setup_next_hour_timer: msecs_to_next_hour <= 1000
SnoozeSecs == 600      \* the reminder's button "Snooze (10 min)"
DaySecs == 24 * HourSecs

\* the quick suggestions of the reminder dialog
suggestions == <<"Working", "Meeting", "Break", "Learning">>

\* the text the user enters at the record_activity call after n earlier ones:
\* a different one each time
TextFor(n) == suggestions[(n % Len(suggestions)) + 1]

\* hours back from the current one that the user edits in the main window
EditOffsets == {0, 2}

At(d, h, m) == d * DaySecs + h * HourSecs + m * MinuteSecs

\* instants the process may be started at first; the last one is one second
\* before the top of an hour
StartTimes == {At(0, 9, 40), At(0, 11, 0), At(0, 14, 30), At(0, 11, 0) - SafetySecs}

----------------------------------------------------------------------------
(* Hour arithmetic *)

\* datetime(now.year, now.month, now.day, now.hour, 0, 0)
FloorToHour(t) == t - (t % HourSecs)

\* datetime(now.year, now.month, now.day, 0, 0, 0)
DayStart(t) == t - (t % DaySecs)

\* datetime.isoformat(): "YYYY-MM-DDTHH:MM:SS" as its fields <<day, HH, MM, SS>>
isoformat(t) ==
    <<t \div DaySecs, (t % DaySecs) \div HourSecs,
      (t % HourSecs) \div MinuteSecs, t % MinuteSecs>>

\* datetime.fromisoformat()
fromisoformat(s) == s[1] * DaySecs + s[2] * HourSecs + s[3] * MinuteSecs + s[4]

\* SQL text comparison of two ISO strings (fixed-width fields)
IsoLess(a, b) ==
    \E i \in 1..4 : a[i] < b[i] /\ \A j \in 1..(i - 1) : a[j] = b[j]

Max(S) == CHOOSE x \in S : \A y \in S : y <= x

\* F applied to the value of v, a local variable assigned once
Bind(v, F(_)) == CHOOSE y \in {F(x) : x \in {v}} : TRUE

Range(q) == {q[i] : i \in 1..Len(q)}

----------------------------------------------------------------------------
(* Activity store: table activities(id, timestamp, hour, activity) *)

\* SELECT hour FROM activities ORDER BY hour DESC LIMIT 1
get_last_activity_time(tbl) ==
    IF Len(tbl) = 0 THEN None
    ELSE LET i == CHOOSE i \in 1..Len(tbl) :
                      \A j \in 1..Len(tbl) : ~IsoLess(tbl[i].hour, tbl[j].hour)
         IN  fromisoformat(tbl[i].hour)

\* has_activity_for_hour with the test "count > 1"
has_activity_for_hour_many(tbl, hour) ==
    Cardinality({i \in 1..Len(tbl) : tbl[i].hour = isoformat(hour)}) > 1

\* SELECT COUNT(*) FROM activities WHERE hour = ?
has_activity_for_hour(tbl, hour) ==
    Cardinality({i \in 1..Len(tbl) : tbl[i].hour = isoformat(hour)}) > 0

\* add_activity without the look-up of an existing row: always INSERT
add_activity_insert_only(tbl, hour, activity_text, now) ==
    Append(tbl, [id |-> Len(tbl) + 1,
                 timestamp |-> isoformat(now),
                 hour |-> isoformat(hour),
                 activity |-> activity_text])

\* add_activity that deletes the hour's rows and inserts a new one
add_activity_replace(tbl, hour, activity_text, now) ==
    LET kept == SelectSeq(tbl, LAMBDA row : row.hour # isoformat(hour))
        ids == {tbl[i].id : i \in 1..Len(tbl)} \cup {0}
    IN  Append(kept, [id |-> Max(ids) + 1,
                      timestamp |-> isoformat(now),
                      hour |-> isoformat(hour),
                      activity |-> activity_text])

\* SELECT id WHERE hour = ?; then UPDATE ... WHERE id = ? or INSERT
add_activity(tbl, hour, activity_text, now) ==
    LET hour_str == isoformat(hour)
        matching == {i \in 1..Len(tbl) : tbl[i].hour = hour_str}
    IN  IF matching # {}
        THEN LET existing == tbl[CHOOSE i \in matching : \A j \in matching : i <= j].id
             IN  [i \in 1..Len(tbl) |->
                    IF tbl[i].id = existing
                    THEN [tbl[i] EXCEPT !.timestamp = isoformat(now),
                                        !.activity = activity_text]
                    ELSE tbl[i]]
        ELSE Append(tbl, [id |-> Len(tbl) + 1,
                          timestamp |-> isoformat(now),
                          hour |-> hour_str,
                          activity |-> activity_text])

----------------------------------------------------------------------------
(* ActivityScheduler.  An operation yields the new object fields s, the    *)
(* value it returns ret and the counts emits it sent on                    *)
(* missed_hours_changed, in order.                                         *)

\* ActivityScheduler.__init__; last_recorded_time is set by initialize()
NewScheduler ==
    [last_recorded_time |-> None, last_check_time |-> None,
     current_hour |-> None, is_initialized |-> FALSE, missed_hours_count |-> 0]

\* the loop of get_missed_hours with "while check_hour < current_hour"
RECURSIVE missed_hours_loop_exclusive(_, _, _)
missed_hours_loop_exclusive(tbl, check_hour, current_hour) ==
    IF check_hour < current_hour
    THEN (IF ~has_activity_for_hour(tbl, check_hour) THEN <<check_hour>> ELSE <<>>)
         \o missed_hours_loop_exclusive(tbl, check_hour + HourSecs, current_hour)
    ELSE <<>>

\* the loop "while check_hour <= current_hour" of get_missed_hours
RECURSIVE missed_hours_loop(_, _, _)
missed_hours_loop(tbl, check_hour, current_hour) ==
    IF check_hour <= current_hour
    THEN (IF ~has_activity_for_hour(tbl, check_hour) THEN <<check_hour>> ELSE <<>>)
         \o missed_hours_loop(tbl, check_hour + HourSecs, current_hour)
    ELSE <<>>

\* get_missed_hours that starts checking at the last recorded hour itself
reconcile_from_last(s, tbl, now) ==
    LET current_hour == FloorToHour(now)
        check_hour == IF s.last_recorded_time # None
                      THEN s.last_recorded_time
                      ELSE DayStart(now)
    IN  Bind(missed_hours_loop(tbl, check_hour, current_hour),
             LAMBDA missed_hours :
                [s |-> [s EXCEPT !.current_hour = current_hour,
                                 !.last_check_time = now,
                                 !.missed_hours_count = Len(missed_hours)],
                 ret |-> missed_hours,
                 emits |-> IF Len(missed_hours) # s.missed_hours_count
                           THEN <<Len(missed_hours)>> ELSE <<>>])

\* get_missed_hours that checks every hour of the day, whatever was recorded
reconcile_from_day_start(s, tbl, now) ==
    LET current_hour == FloorToHour(now)
        check_hour == DayStart(now)
    IN  Bind(missed_hours_loop(tbl, check_hour, current_hour),
             LAMBDA missed_hours :
                [s |-> [s EXCEPT !.current_hour = current_hour,
                                 !.last_check_time = now,
                                 !.missed_hours_count = Len(missed_hours)],
                 ret |-> missed_hours,
                 emits |-> IF Len(missed_hours) # s.missed_hours_count
                           THEN <<Len(missed_hours)>> ELSE <<>>])

\* get_missed_hours that leaves missed_hours_count as it was
reconcile_keeps_count(s, tbl, now) ==
    LET current_hour == FloorToHour(now)
        check_hour == IF s.last_recorded_time # None
                      THEN s.last_recorded_time + HourSecs
                      ELSE DayStart(now)
    IN  Bind(missed_hours_loop(tbl, check_hour, current_hour),
             LAMBDA missed_hours :
                [s |-> [s EXCEPT !.current_hour = current_hour,
                                 !.last_check_time = now],
                 ret |-> missed_hours,
                 emits |-> IF Len(missed_hours) # s.missed_hours_count
                           THEN <<Len(missed_hours)>> ELSE <<>>])

\* get_missed_hours once the scheduler is initialized (the "if True or" branch)
reconcile(s, tbl, now) ==
    LET current_hour == FloorToHour(now)
        check_hour == IF s.last_recorded_time # None
                      THEN s.last_recorded_time + HourSecs
                      ELSE DayStart(now)
    IN  Bind(missed_hours_loop(tbl, check_hour, current_hour),
             LAMBDA missed_hours :
                [s |-> [s EXCEPT !.current_hour = current_hour,
                                 !.last_check_time = now,
                                 !.missed_hours_count = Len(missed_hours)],
                 ret |-> missed_hours,
                 emits |-> IF Len(missed_hours) # s.missed_hours_count
                           THEN <<Len(missed_hours)>> ELSE <<>>])

initialize(s, tbl, now) ==
    LET last == get_last_activity_time(tbl)
        s1 == [s EXCEPT !.last_recorded_time =
                            IF last = None THEN FloorToHour(now) ELSE last,
                        !.last_check_time = now,
                        !.current_hour = FloorToHour(now),
                        !.is_initialized = TRUE]
    IN  Bind(reconcile(s1, tbl, now),
             LAMBDA r :
                [s |-> [r.s EXCEPT !.missed_hours_count = Len(r.ret)],
                 ret |-> r.ret,
                 emits |-> r.emits \o <<Len(r.ret)>>])

get_missed_hours(s, tbl, now) ==
    IF ~s.is_initialized
    THEN Bind(initialize(s, tbl, now),
              LAMBDA i :
                 Bind(reconcile(i.s, tbl, now),
                      LAMBDA r :
                         [s |-> r.s, ret |-> r.ret, emits |-> i.emits \o r.emits]))
    ELSE reconcile(s, tbl, now)

\* refresh_schedule that keeps last_recorded_time as it is
refresh_schedule_stale(s, tbl, now) ==
    LET s1 == [s EXCEPT !.last_check_time = now,
                        !.current_hour = FloorToHour(now)]
    IN  Bind(get_missed_hours(s1, tbl, now),
             LAMBDA r :
                [s |-> [r.s EXCEPT !.missed_hours_count = Len(r.ret)],
                 ret |-> r.ret,
                 emits |-> r.emits \o (IF Len(r.ret) # r.s.missed_hours_count
                                       THEN <<Len(r.ret)>> ELSE <<>>)])

refresh_schedule(s, tbl, now) ==
    LET s1 == [s EXCEPT !.last_recorded_time = get_last_activity_time(tbl),
                        !.last_check_time = now,
                        !.current_hour = FloorToHour(now)]
    IN  Bind(get_missed_hours(s1, tbl, now),
             LAMBDA r :
                [s |-> [r.s EXCEPT !.missed_hours_count = Len(r.ret)],
                 ret |-> r.ret,
                 emits |-> r.emits \o (IF Len(r.ret) # r.s.missed_hours_count
                                       THEN <<Len(r.ret)>> ELSE <<>>)])

\* the loop of record_activity leaving after its first hour
add_all_first_only(tbl, hours, activity_text, now) ==
    IF hours = <<>> THEN tbl
    ELSE add_activity(tbl, Head(hours), activity_text, now)

\* the loop "for hour in hours: self.db.add_activity(hour, activity_text)"
RECURSIVE add_all(_, _, _, _)
add_all(tbl, hours, activity_text, now) ==
    IF hours = <<>> THEN tbl
    ELSE add_all(add_activity(tbl, Head(hours), activity_text, now),
                 Tail(hours), activity_text, now)

record_activity(s, tbl, hours, activity_text, now) ==
    LET latest_hour == Max(Range(hours))
        s1 == IF hours # <<>> /\ (s.last_recorded_time = None
                                  \/ latest_hour > s.last_recorded_time)
              THEN [s EXCEPT !.last_recorded_time = latest_hour]
              ELSE s
    IN  Bind(add_all(tbl, hours, activity_text, now),
             LAMBDA tbl1 :
                Bind(refresh_schedule(s1, tbl1, now),
                     LAMBDA r :
                        [s |-> r.s, tbl |-> tbl1, ret |-> r.ret, emits |-> r.emits]))

\* record_activity when the k-th add_activity raises: the hours before it are
\* written and committed, the error leaves the loop and the method
record_activity_raises(s, tbl, hours, activity_text, now, k) ==
    [s |-> s,
     tbl |-> add_all(tbl, SubSeq(hours, 1, k - 1), activity_text, now),
     emits |-> <<>>]

\* get_missed_hours of an initialized scheduler reads the store: its loop
\* runs at least once
reads_store(s, now) ==
    (IF s.last_recorded_time # None THEN s.last_recorded_time + HourSecs
     ELSE DayStart(now)) <= FloorToHour(now)

get_missed_hours_count(s) == s.missed_hours_count

----------------------------------------------------------------------------
(* AccountabilityApp *)

\* current_minute < 5
is_new_hour(now) == (now % HourSecs) \div MinuteSecs < NewHourMinutes

\* check_schedule without the early return on reminder_showing
check_schedule_unguarded(s, tbl, now, showing, dlgs, force) ==
    Bind(get_missed_hours(s, tbl, now),
         LAMBDA r :
            LET show == r.ret # <<>> /\ (force \/ is_new_hour(now))
            IN  [s |-> r.s,
                 showing |-> IF show THEN TRUE ELSE showing,
                 dialogs |-> IF show THEN Append(dlgs, r.ret) ELSE dlgs,
                 ret |-> r.ret,
                 emits |-> r.emits,
                 log |-> [showing |-> showing, force |-> force,
                          reconciled |-> TRUE, shown |-> show, ret |-> r.ret]])

\* check_schedule that shows a reminder whenever hours are missing
check_schedule_ungated(s, tbl, now, showing, dlgs, force) ==
    IF showing
    THEN [s |-> s, showing |-> showing, dialogs |-> dlgs, ret |-> NoCall,
          emits |-> <<>>,
          log |-> [showing |-> TRUE, force |-> force, reconciled |-> FALSE,
                   shown |-> FALSE, ret |-> NoCall]]
    ELSE Bind(get_missed_hours(s, tbl, now),
              LAMBDA r :
                 [s |-> r.s,
                  showing |-> IF r.ret # <<>> THEN TRUE ELSE showing,
                  dialogs |-> IF r.ret # <<>> THEN Append(dlgs, r.ret) ELSE dlgs,
                  ret |-> r.ret,
                  emits |-> r.emits,
                  log |-> [showing |-> FALSE, force |-> force,
                           reconciled |-> TRUE, shown |-> r.ret # <<>>,
                           ret |-> r.ret]])

\* check_schedule that reconciles and never opens a reminder
check_schedule_silent(s, tbl, now, showing, dlgs, force) ==
    IF showing
    THEN [s |-> s, showing |-> showing, dialogs |-> dlgs, ret |-> NoCall,
          emits |-> <<>>,
          log |-> [showing |-> TRUE, force |-> force, reconciled |-> FALSE,
                   shown |-> FALSE, ret |-> NoCall]]
    ELSE Bind(get_missed_hours(s, tbl, now),
              LAMBDA r :
                 [s |-> r.s,
                  showing |-> showing,
                  dialogs |-> dlgs,
                  ret |-> r.ret,
                  emits |-> r.emits,
                  log |-> [showing |-> FALSE, force |-> force,
                           reconciled |-> TRUE, shown |-> FALSE,
                           ret |-> r.ret]])

\* check_schedule(force); show_reminder_for_hours opens one ReminderDialog
check_schedule(s, tbl, now, showing, dlgs, force) ==
    IF showing
    THEN [s |-> s, showing |-> showing, dialogs |-> dlgs, ret |-> NoCall,
          emits |-> <<>>,
          log |-> [showing |-> TRUE, force |-> force, reconciled |-> FALSE,
                   shown |-> FALSE, ret |-> NoCall]]
    ELSE Bind(get_missed_hours(s, tbl, now),
              LAMBDA r :
                 LET show == r.ret # <<>> /\ (force \/ is_new_hour(now))
                 IN  [s |-> r.s,
                      showing |-> IF show THEN TRUE ELSE showing,
                      dialogs |-> IF show THEN Append(dlgs, r.ret) ELSE dlgs,
                      ret |-> r.ret,
                      emits |-> r.emits,
                      log |-> [showing |-> FALSE, force |-> force,
                               reconciled |-> TRUE, shown |-> show,
                               ret |-> r.ret]])

\* delay setup_next_hour_timer passes to hourly_timer.start, in seconds
msecs_to_next_hour(now) ==
    LET d == FloorToHour(now + HourSecs) - now
    IN  IF d <= SafetySecs THEN d + HourSecs ELSE d

\* the emission history after a handler that emitted emits
Emitted(emits) ==
    /\ emitLog' = emits
    /\ lastEmitted' = IF emitLog = <<>> THEN lastEmitted ELSE emitLog[Len(emitLog)]

\* the handler returned: no store error
Returns ==
    /\ raised' = ""
    /\ UNCHANGED failed

\* the hours get_missed_hours() reports in the current state
Reported == Range(get_missed_hours(scheduler, activities, clock).ret)

\* the variables of time_utils and of the analysis cache
libvars == <<between, analysis_results, lastAnalysis>>

\* no get_hours_between call yet
NoBetween == [start_time |-> None, end_time |-> None, hours |-> <<>>]

\* no call into the analysis cache yet
NoAnalysis == [op |-> "none"]

\* the analysis_results table as created: no row, AUTOINCREMENT at 0
NoRows == [rows |-> <<>>, seq |-> 0]

TypeOK ==
    /\ clock \in Nat
    /\ ticks \in 0..MaxTicks
    /\ writes \in 0..MaxWrites
    /\ scheduler.is_initialized \in BOOLEAN
    /\ running \in BOOLEAN
    /\ reminder_showing \in BOOLEAN

Init ==
    /\ clock \in StartTimes
    /\ ticks = 0
    /\ writes = 0
    /\ activities = <<>>
    /\ scheduler = NewScheduler
    /\ running = FALSE
    /\ reminder_showing = FALSE
    /\ dialogs = <<>>
    /\ check_due = None
    /\ hourly_due = None
    /\ lastOp = "none"
    /\ lastArg = <<>>
    /\ lastText = ""
    /\ checkLog = <<>>
    /\ returned = NoCall
    /\ emitLog = <<>>
    /\ lastEmitted = None
    /\ raised = ""
    /\ failed = {}
    /\ between = NoBetween
    /\ analysis_results = NoRows
    /\ lastAnalysis = NoAnalysis

\* AccountabilityApp.start()
Start ==
    /\ ~running
    /\ \E i \in {initialize(scheduler, activities, clock)} :
       \E c1 \in {check_schedule(i.s, activities, clock, reminder_showing,
                                  dialogs, TRUE)} :
       \E c2 \in {check_schedule(c1.s, activities, clock, c1.showing,
                                  c1.dialogs, FALSE)} :
           /\ scheduler' = c2.s
           /\ reminder_showing' = c2.showing
           /\ dialogs' = c2.dialogs
           /\ checkLog' = <<c1.log, c2.log>>
           /\ returned' = IF c2.ret # NoCall THEN c2.ret ELSE c1.ret
           /\ Emitted(i.emits \o c1.emits \o c2.emits)
    /\ running' = TRUE
    /\ check_due' = clock + MinuteSecs
    /\ hourly_due' = clock + msecs_to_next_hour(clock)
    /\ lastOp' = "start"
    /\ UNCHANGED libvars
    /\ Returns
    /\ lastArg' = <<>>
    /\ lastText' = ""
    /\ UNCHANGED <<clock, ticks, writes, activities>>

\* check_timer.timeout -> check_schedule()
CheckTimerTimeout ==
    /\ running
    /\ clock >= check_due
    /\ \E c \in {check_schedule(scheduler, activities, clock, reminder_showing,
                                 dialogs, FALSE)} :
           /\ scheduler' = c.s
           /\ reminder_showing' = c.showing
           /\ dialogs' = c.dialogs
           /\ checkLog' = <<c.log>>
           /\ returned' = c.ret
           /\ Emitted(c.emits)
    /\ check_due' = clock + MinuteSecs
    /\ lastOp' = "check_timer"
    /\ UNCHANGED libvars
    /\ Returns
    /\ lastArg' = <<>>
    /\ lastText' = ""
    /\ UNCHANGED <<clock, ticks, writes, activities, running, hourly_due>>

\* hourly_timer.timeout -> setup_next_hour_timer()
HourlyTimerTimeout ==
    /\ running
    /\ clock >= hourly_due
    /\ \E c \in {check_schedule(scheduler, activities, clock, reminder_showing,
                                 dialogs, TRUE)} :
           /\ scheduler' = c.s
           /\ reminder_showing' = c.showing
           /\ dialogs' = c.dialogs
           /\ checkLog' = <<c.log>>
           /\ returned' = c.ret
           /\ Emitted(c.emits)
    /\ hourly_due' = clock + msecs_to_next_hour(clock)
    /\ lastOp' = "hourly_timer"
    /\ UNCHANGED libvars
    /\ Returns
    /\ lastArg' = <<>>
    /\ lastText' = ""
    /\ UNCHANGED <<clock, ticks, writes, activities, running, check_due>>

\* the elements of a set of instants in ascending order
RECURSIVE Sorted(_)
Sorted(S) ==
    IF S = {} THEN <<>>
    ELSE LET m == CHOOSE x \in S : \A y \in S : x <= y
         IN  <<m>> \o Sorted(S \ {m})

\* items of a reminder's list the user picks among: its first and its last
Selectable(hours) == {hours[1], hours[Len(hours)]}

\* the non-empty selections of a set of list items
Selections(S) == (SUBSET S) \ {{}}

RemoveAt(q, i) == SubSeq(q, 1, i - 1) \o SubSeq(q, i + 1, Len(q))

\* ReminderDialog.on_record with the items sel selected and a non-blank text;
\* when no hour is left the dialog accepts itself and on_reminder_closed runs
on_record(i, sel, activity_text) ==
    /\ running
    /\ i \in 1..Len(dialogs)
    /\ sel \in Selections(Selectable(dialogs[i]))
    /\ \E selected_hours \in {Sorted(sel)} :
       \E r \in {record_activity(scheduler, activities, selected_hours,
                                 activity_text, clock)} :
       \E hours \in {SelectSeq(dialogs[i], LAMBDA h : h \notin sel)} :
       \E closed \in {refresh_schedule(r.s, r.tbl, clock)} :
           /\ writes < MaxWrites
           /\ writes' = writes + 1
           /\ activities' = r.tbl
           /\ lastArg' = selected_hours
           /\ lastText' = activity_text
           /\ IF hours = <<>>
              THEN /\ dialogs' = RemoveAt(dialogs, i)
                   /\ reminder_showing' = FALSE
                   /\ scheduler' = closed.s
                   /\ returned' = closed.ret
                   /\ Emitted(r.emits \o closed.emits)
              ELSE /\ dialogs' = [dialogs EXCEPT ![i] = hours]
                   /\ reminder_showing' = reminder_showing
                   /\ scheduler' = r.s
                   /\ returned' = r.ret
                   /\ Emitted(r.emits)
    /\ lastOp' = "on_record"
    /\ UNCHANGED libvars
    /\ Returns
    /\ checkLog' = <<>>
    /\ UNCHANGED <<clock, ticks, running, check_due, hourly_due>>

\* ReminderDialog.on_snooze: reject() -> finished -> on_reminder_closed
on_snooze(i) ==
    /\ running
    /\ i \in 1..Len(dialogs)
    /\ \E closed \in {refresh_schedule(scheduler, activities, clock)} :
           /\ scheduler' = closed.s
           /\ returned' = closed.ret
           /\ Emitted(closed.emits)
    /\ dialogs' = RemoveAt(dialogs, i)
    /\ reminder_showing' = FALSE
    /\ lastOp' = "on_snooze"
    /\ UNCHANGED libvars
    /\ Returns
    /\ lastArg' = <<>>
    /\ lastText' = ""
    /\ checkLog' = <<>>
    /\ UNCHANGED <<clock, ticks, writes, activities, running, check_due, hourly_due>>

\* items of the main window's activity list the user picks among, each a
\* datetime(y, m, d, hour): the current hour and the hour two hours before it
EditableHours(now) ==
    {FloorToHour(now) - k * HourSecs : k \in EditOffsets}

\* MainWindow.on_edit_activity(hours) with the ActivityInputDialog accepted
\* and a non-empty text entered; dialog.exec() is modal
on_edit_activity(hours, activity_text) ==
    /\ running
    /\ \E r \in {record_activity(scheduler, activities, hours, activity_text, clock)} :
           /\ writes < MaxWrites
           /\ writes' = writes + 1
           /\ activities' = r.tbl
           /\ scheduler' = r.s
           /\ returned' = r.ret
           /\ Emitted(r.emits)
    /\ lastArg' = hours
    /\ lastText' = activity_text
    /\ checkLog' = <<>>
    /\ Returns
    /\ UNCHANGED <<clock, ticks, running, reminder_showing, dialogs,
                   check_due, hourly_due>>

\* on_edit_activity from the activity list: the selected items' hours
EditActivity ==
    \E sel \in Selections(EditableHours(clock)) :
       /\ on_edit_activity(Sorted(sel), TextFor(writes))
       /\ lastOp' = "on_edit_activity"
       /\ UNCHANGED libvars

\* MainWindow.on_edit_current_activity: on_edit_activity(hours=[datetime.now()])
EditCurrentActivity ==
    /\ on_edit_activity(<<clock>>, TextFor(writes))
    /\ lastOp' = "on_edit_current_activity"
    /\ UNCHANGED libvars

\* AccountabilityApp.quit(): the process ends, the database file stays
Quit ==
    /\ running
    /\ running' = FALSE
    /\ scheduler' = NewScheduler
    /\ reminder_showing' = FALSE
    /\ dialogs' = <<>>
    /\ check_due' = None
    /\ hourly_due' = None
    /\ lastOp' = "quit"
    /\ UNCHANGED libvars
    /\ Returns
    /\ lastArg' = <<>>
    /\ lastText' = ""
    /\ checkLog' = <<>>
    /\ returned' = NoCall
    /\ emitLog' = <<>>
    /\ lastEmitted' = None
    /\ UNCHANGED <<clock, ticks, writes, activities>>

\* an error leaves a slot uncaught: no sys.excepthook is installed, PyQt6
\* ends the process; the committed rows stay
Aborts ==
    /\ running' = FALSE
    /\ scheduler' = NewScheduler
    /\ reminder_showing' = FALSE
    /\ dialogs' = <<>>
    /\ check_due' = None
    /\ hourly_due' = None
    /\ checkLog' = <<>>
    /\ returned' = NoCall
    /\ emitLog' = <<>>
    /\ lastEmitted' = None

\* on_edit_activity(hours) from the activity list when add_activity raises at
\* hours[k], an hour get_missed_hours() reports
on_edit_activity_raises(hours, activity_text, k) ==
    /\ running
    /\ writes < MaxWrites
    /\ writes' = writes + 1
    /\ activities' = record_activity_raises(scheduler, activities, hours,
                                            activity_text, clock, k).tbl
    /\ raised' = "add_activity"
    /\ failed' = failed \cup {hours[k]}
    /\ lastOp' = "on_edit_activity"
    /\ UNCHANGED libvars
    /\ lastArg' = hours
    /\ lastText' = activity_text
    /\ Aborts
    /\ UNCHANGED <<clock, ticks>>

EditActivityRaises ==
    /\ running
    /\ writes < MaxWrites
    /\ \E reported \in {Reported} :
       \E sel \in Selections(EditableHours(clock)) : \E hours \in {Sorted(sel)} :
       \E k \in 1..Len(hours) :
          /\ hours[k] \in reported
          /\ on_edit_activity_raises(hours, TextFor(writes), k)

\* check_timer.timeout -> check_schedule() when has_activity_for_hour raises
\* inside get_missed_hours
CheckTimerTimeoutRaises ==
    /\ running
    /\ clock >= check_due
    /\ ~reminder_showing
    /\ reads_store(scheduler, clock)
    /\ raised' = "has_activity_for_hour"
    /\ lastOp' = "check_timer"
    /\ UNCHANGED libvars
    /\ lastArg' = <<>>
    /\ lastText' = ""
    /\ Aborts
    /\ UNCHANGED <<clock, ticks, writes, activities, failed>>

\* time passes: a minute, or up to the next top of the hour
TickSteps(now) == {MinuteSecs, FloorToHour(now + HourSecs) - now}

Tick ==
    /\ ticks < MaxTicks
    /\ \E d \in TickSteps(clock) : clock' = clock + d
    /\ ticks' = ticks + 1
    /\ lastOp' = "tick"
    /\ UNCHANGED libvars
    /\ Returns
    /\ lastArg' = <<>>
    /\ lastText' = ""
    /\ checkLog' = <<>>
    /\ returned' = NoCall
    /\ Emitted(<<>>)
    /\ UNCHANGED <<writes, activities, scheduler, running, reminder_showing, dialogs,
                   check_due, hourly_due>>

\* the user records some of a reminder's hours
ReminderRecord ==
    \E i \in 1..Len(dialogs) : \E sel \in Selections(Selectable(dialogs[i])) :
       on_record(i, sel, TextFor(writes))

\* the user snoozes a reminder
ReminderSnooze == \E i \in 1..Len(dialogs) : on_snooze(i)

Next ==
    \/ Start
    \/ CheckTimerTimeout
    \/ HourlyTimerTimeout
    \/ ReminderRecord
    \/ ReminderSnooze
    \/ EditActivity
    \/ EditCurrentActivity
    \/ Quit
    \/ Tick
    \/ EditActivityRaises
    \/ CheckTimerTimeoutRaises

Spec == Init /\ [][Next]_vars

----------------------------------------------------------------------------
(* utils/time_utils.py: get_hours_between, a pure function no handler of   *)
(* the application calls.  HoursSpec applies it to every pair of BetweenTimes. *)

\* the loop of get_hours_between: while current <= end_hour
RECURSIVE hours_between_loop(_, _)
hours_between_loop(current, end_hour) ==
    IF current <= end_hour
    THEN <<current>> \o hours_between_loop(current + HourSecs, end_hour)
    ELSE <<>>

\* get_hours_between(start_time, end_time): both ends are floored to the hour
get_hours_between(start_time, end_time) ==
    LET start_hour == FloorToHour(start_time)
        end_hour   == FloorToHour(end_time)
    IN  hours_between_loop(start_hour, end_hour)

\* the datetimes handed to get_hours_between
BetweenTimes == {At(0, h, m) : h \in 8..11, m \in {0, 10, 50}}

\* a caller applies get_hours_between
GetHoursBetween ==
    /\ \E start_time \in BetweenTimes : \E end_time \in BetweenTimes :
          between' = [start_time |-> start_time, end_time |-> end_time,
                      hours |-> get_hours_between(start_time, end_time)]
    /\ UNCHANGED <<clock, ticks, writes, activities, scheduler, running,
                   reminder_showing, dialogs, check_due, hourly_due, lastOp,
                   lastArg, lastText, checkLog, returned, emitLog, lastEmitted,
                   raised, failed, analysis_results, lastAnalysis>>

HoursInit == Init /\ clock = At(0, 9, 40)

HoursNext == GetHoursBetween

HoursSpec == HoursInit /\ [][HoursNext]_vars

----------------------------------------------------------------------------
(* ai_analysis.py and ui/analysis_widget.py: the analysis cache, table     *)
(* analysis_results(id, date_range, start_date, end_date, ..., summary,    *)
(* ..., created_at).  Datetimes are kept to the second, so the end of a    *)
(* day, 23:59:59.999999, is its last second; created_at, datetime.now() at *)
(* the insert, is the number of the insert.  Day -1 is 2023-12-31.         *)

Min(S) == CHOOSE x \in S : \A y \in S : x <= y

\* today.replace(hour=23, minute=59, second=59, microsecond=999999)
DayEnd(t) == DayStart(t) + DaySecs - 1

\* the date range labels of the analysis tab used here
Labels == {"Today", "Yesterday", "Last Week"}

\* the activity lists handed to the analyzer, as the sets of their hours
AnalysedSets ==
    {{}, {At(0, 9, 0)}, {At(0, 9, 0), At(0, 13, 0)}, {At(0 - 1, 22, 0), At(0, 9, 0)}}

\* the summaries the model answers with
Summaries == {"focused morning", "scattered day"}

\* _get_date_range_bounds(date_range, activities): without activities, today;
\* with activities, the day of the earliest hour to the day of the latest.
\* The label table below `if sorted_activities:` is never reached.
get_date_range_bounds(date_range, acts, now) ==
    IF acts = {}
    THEN <<DayStart(now), DayEnd(now)>>
    ELSE <<DayStart(Min(acts)), DayEnd(Max(acts))>>

\* save_analysis(result, date_range, activities): INSERT with id None, a new
\* row each time
save_analysis(db, result, date_range, acts, now) ==
    LET bounds == get_date_range_bounds(date_range, acts, now)
        row == [id |-> db.seq + 1,
                date_range |-> date_range,
                start_date |-> isoformat(bounds[1]),
                end_date |-> isoformat(bounds[2]),
                summary |-> result.summary,
                created_at |-> db.seq + 1]
    IN  [db |-> [rows |-> Append(db.rows, row), seq |-> db.seq + 1],
         ret |-> row.id,
         bounds |-> bounds]

\* no saved analysis
NoSaved == [id |-> None]

\* get_saved_analysis(date_range, activities): WHERE date_range = ?
\* ORDER BY created_at DESC LIMIT 1; the bounds it computes are not used
get_saved_analysis(db, date_range, acts, now) ==
    LET found == {i \in 1..Len(db.rows) : db.rows[i].date_range = date_range}
    IN  IF found = {}
        THEN NoSaved
        ELSE LET i == CHOOSE j \in found :
                         \A k \in found : db.rows[k].created_at <= db.rows[j].created_at
             IN  [id |-> db.rows[i].id,
                  summary |-> db.rows[i].summary,
                  timestamp |-> db.rows[i].created_at]

\* AnalysisWorker.run with force_reload: DELETE FROM analysis_results
\* WHERE date_range = ? AND start_date = ? AND end_date = ?
delete_cached(db, date_range, acts, now) ==
    LET bounds == get_date_range_bounds(date_range, acts, now)
        Kept(row) == ~(/\ row.date_range = date_range
                       /\ row.start_date = isoformat(bounds[1])
                       /\ row.end_date = isoformat(bounds[2]))
    IN  [rows |-> SelectSeq(db.rows, Kept), seq |-> db.seq]

\* analyze_activities(activities, date_range): nothing to analyse, or the saved
\* analysis, or the model's answer, saved when the query succeeded (ok)
analyze_activities(db, acts, date_range, now, ok, summary) ==
    IF acts = {}
    THEN [db |-> db, cached |-> FALSE, queried |-> FALSE, ret |-> NoSaved]
    ELSE LET saved == get_saved_analysis(db, date_range, acts, now)
         IN  IF saved # NoSaved
             THEN [db |-> db, cached |-> TRUE, queried |-> FALSE, ret |-> saved]
             ELSE IF ok
             THEN LET r == save_analysis(db, [summary |-> summary], date_range,
                                         acts, now)
                  IN  [db |-> r.db, cached |-> FALSE, queried |-> TRUE,
                       ret |-> [id |-> r.ret, summary |-> summary,
                                timestamp |-> r.db.seq]]
             ELSE [db |-> db, cached |-> FALSE, queried |-> TRUE, ret |-> NoSaved]

\* AnalysisWorker.run()
run(db, acts, date_range, force_reload, now, ok, summary) ==
    LET cleared == IF force_reload
                   THEN delete_cached(db, date_range, acts, now)
                   ELSE db
    IN  analyze_activities(cleared, acts, date_range, now, ok, summary)

\* what the application's handlers do not touch
appvars == <<clock, ticks, writes, activities, scheduler, running,
             reminder_showing, dialogs, check_due, hourly_due, lastOp,
             lastArg, lastText, checkLog, returned, emitLog, lastEmitted,
             raised, failed>>

\* a caller saves an analysis
SaveAnalysis ==
    /\ analysis_results.seq < MaxAnalyses
    /\ \E date_range \in Labels : \E acts \in AnalysedSets : \E summary \in Summaries :
       \E r \in {save_analysis(analysis_results, [summary |-> summary],
                               date_range, acts, clock)} :
          /\ analysis_results' = r.db
          /\ lastAnalysis' = [op |-> "save_analysis", date_range |-> date_range,
                              activities |-> acts, force_reload |-> FALSE,
                              cached |-> FALSE, queried |-> FALSE,
                              bounds |-> r.bounds,
                              ret |-> [id |-> r.ret, summary |-> summary,
                                       timestamp |-> r.db.seq]]
    /\ UNCHANGED <<appvars, between>>

\* a caller looks a saved analysis up
GetSavedAnalysis ==
    /\ \E date_range \in Labels : \E acts \in AnalysedSets :
          lastAnalysis' = [op |-> "get_saved_analysis", date_range |-> date_range,
                           activities |-> acts, force_reload |-> FALSE,
                           cached |-> FALSE, queried |-> FALSE,
                           bounds |-> get_date_range_bounds(date_range, acts, clock),
                           ret |-> get_saved_analysis(analysis_results, date_range,
                                                      acts, clock)]
    /\ UNCHANGED <<appvars, between, analysis_results>>

\* the analysis tab starts a worker, with or without force_reload
RunAnalysis ==
    /\ analysis_results.seq < MaxAnalyses
    /\ \E date_range \in Labels : \E acts \in AnalysedSets :
       \E force_reload \in BOOLEAN : \E ok \in BOOLEAN : \E summary \in Summaries :
       \E r \in {run(analysis_results, acts, date_range, force_reload, clock,
                     ok, summary)} :
          /\ analysis_results' = r.db
          /\ lastAnalysis' = [op |-> "run", date_range |-> date_range,
                              activities |-> acts, force_reload |-> force_reload,
                              cached |-> r.cached, queried |-> r.queried,
                              bounds |-> get_date_range_bounds(date_range, acts, clock),
                              ret |-> r.ret]
    /\ UNCHANGED <<appvars, between>>

CacheInit == Init /\ clock = At(0, 14, 30)

CacheNext ==
    \/ SaveAnalysis
    \/ GetSavedAnalysis
    \/ RunAnalysis

CacheSpec == CacheInit /\ [][CacheNext]_vars

----------------------------------------------------------------------------
(* AccountabilityApp.show_reminder: an operation of the application object *)
(* that nothing in the repository calls.  ApiSpec is the application with  *)
(* this operation called as well.                                          *)

\* show_reminder(): show_reminder_for_hours([now]); no test of reminder_showing
ShowReminder ==
    /\ running
    /\ Len(dialogs) < MaxDialogs
    /\ reminder_showing' = TRUE
    /\ dialogs' = Append(dialogs, <<clock>>)
    /\ lastOp' = "show_reminder"
    /\ lastArg' = <<>>
    /\ lastText' = ""
    /\ checkLog' = <<>>
    /\ returned' = NoCall
    /\ Emitted(<<>>)
    /\ Returns
    /\ UNCHANGED <<clock, ticks, writes, activities, scheduler, running,
                   check_due, hourly_due, libvars>>

ApiNext ==
    \/ Next
    \/ ShowReminder

ApiSpec == Init /\ [][ApiNext]_vars

\* the application while both timers keep firing: a QTimer whose interval has
\* passed delivers its timeout as long as the event loop runs
LiveSpec ==
    /\ Spec
    /\ WF_vars(HourlyTimerTimeout)
    /\ WF_vars(CheckTimerTimeout)

----------------------------------------------------------------------------
(* Properties *)

\* what get_missed_hours() returns when called in the current state
WouldReturn == get_missed_hours(scheduler, activities, clock).ret

\* the step is a handler that called record_activity
Recorded == writes' = writes + 1 /\ raised' = ""

Without(q, h) == SelectSeq(q, LAMBDA x : x # h)

\* C1: when an hour h that get_missed_hours() reports is recorded alone, the
\* next get_missed_hours() in the same clock hour is the previous result with
\* h removed and every other hour kept.
C1_RecordRemovesOnlyThatHour ==
    [][(/\ Recorded
        /\ Len(lastArg') = 1
        /\ lastArg'[1] \in Range(WouldReturn))
       => WouldReturn' = Without(WouldReturn, lastArg'[1])]_vars

\* C2: with entries for 09:00 and 11:00 and none for 10:00, and the clock in
\* the 11:00 hour, get_missed_hours() returns exactly [10:00].
C2_GapBetweenRecordedHours ==
    (/\ has_activity_for_hour(activities, At(0, 9, 0))
     /\ has_activity_for_hour(activities, At(0, 11, 0))
     /\ ~has_activity_for_hour(activities, At(0, 10, 0))
     /\ FloorToHour(clock) = At(0, 11, 0)
     /\ returned # NoCall)
    => returned = <<At(0, 10, 0)>>

\* C3: with an empty store at 2024-01-01T14:30 a freshly started scheduler's
\* get_missed_hours() returns the 15 hours 00:00 .. 14:00 in ascending order.
C3_EmptyStoreDayStart ==
    (lastOp = "start" /\ activities = <<>> /\ clock = At(0, 14, 30))
    => returned = [k \in 1..15 |-> At(0, k - 1, 0)]

\* the hours start, start + 1h, ... up to floor_to_hour(now) without an entry
MissingFrom(start_check_hour) ==
    Sorted({h \in {start_check_hour + k * HourSecs :
                     k \in 0..((FloorToHour(clock) + HourSecs) \div HourSecs)} :
              /\ h <= FloorToHour(clock)
              /\ \A i \in 1..Len(activities) : fromisoformat(activities[i].hour) # h})

LastRecordedHour == Max({fromisoformat(activities[i].hour) : i \in 1..Len(activities)})

\* C4: on a non-empty store get_missed_hours() returns exactly the hours h,
\* ascending and one hour apart from (last recorded hour + 1h) on, with
\* h <= floor_to_hour(now) and no entry for h; the current hour is included.
C4_MissedHoursAreTheGaps ==
    (returned # NoCall /\ activities # <<>>)
    => returned = MissingFrom(LastRecordedHour + HourSecs)

C4_Witness ==
    /\ returned # NoCall
    /\ activities # <<>>
    /\ Len(returned) >= 2
    /\ returned[Len(returned)] = FloorToHour(clock)

\* C5: two get_missed_hours() calls in the same clock hour with no store
\* write between them return identical sequences, also on an empty store.
C5_ReconcilerIdempotent ==
    [][(/\ returned # NoCall
        /\ returned' # NoCall
        /\ activities' = activities
        /\ FloorToHour(clock') = FloorToHour(clock))
       => returned' = returned]_vars

\* C6: at most one reminder is open, and a check_schedule call that finds a
\* reminder showing, forced or not, opens none and does not call
\* get_missed_hours().
C6_OneReminderAtATime ==
    /\ Len(dialogs) <= 1
    /\ \A i \in 1..Len(checkLog) :
          checkLog[i].showing => ~checkLog[i].reconciled /\ ~checkLog[i].shown

C6_Witness ==
    /\ Len(dialogs) = 1
    /\ lastOp = "hourly_timer"
    /\ checkLog[1].showing
    /\ checkLog[1].force

\* rows of tbl whose hour column is the ISO string of h
RowsFor(tbl, h) == {i \in 1..Len(tbl) : tbl[i].hour = isoformat(h)}

\* C7: the table holds at most one row per hour; a write to an hour that has
\* a row overwrites that row's text and timestamp and keeps its id, a write
\* to a new hour adds exactly one row, and no other row changes.
C7_OneRowPerHour ==
    [][/\ \A i, j \in 1..Len(activities') :
             activities'[i].hour = activities'[j].hour => i = j
       /\ Recorded =>
            /\ \A h \in Range(lastArg') :
                  \E i \in 1..Len(activities') :
                     /\ RowsFor(activities', h) = {i}
                     /\ activities'[i].activity = lastText'
                     /\ activities'[i].timestamp = isoformat(clock)
                     /\ RowsFor(activities, h) # {} =>
                           /\ RowsFor(activities, h) = {i}
                           /\ activities'[i].id = activities[i].id
            /\ Len(activities') = Len(activities)
                 + Cardinality({h \in Range(lastArg') : RowsFor(activities, h) = {}})
            /\ \A i \in 1..Len(activities) :
                  fromisoformat(activities[i].hour) \notin Range(lastArg')
                     => activities'[i] = activities[i]
            /\ \A i, j \in 1..Len(activities') :
                  activities'[i].id = activities'[j].id => i = j]_vars

C7_Witness ==
    /\ writes = 2
    /\ Len(activities) = 1
    /\ activities[1].activity = TextFor(1)
    /\ activities[1].timestamp # isoformat(fromisoformat(activities[1].hour))

\* C8: has_activity_for_hour(h) is true right after add_activity(h, text) and
\* stays true after every later add_activity.
C8_PresenceAfterWrite ==
    [][/\ Recorded =>
            \A h \in Range(lastArg') : has_activity_for_hour(activities', h)
       /\ \A i \in 1..Len(activities) :
             has_activity_for_hour(activities', fromisoformat(activities[i].hour))]_vars

C8_Witness ==
    /\ writes = 2
    /\ lastOp = "on_edit_current_activity"
    /\ has_activity_for_hour(activities, clock)
    /\ Len(activities) = 2

\* C9: every hour key written through the recording paths is truncated to the
\* hour, and every hour get_missed_hours() returns is hour-floored.
C9_HourKeysAreFloored ==
    /\ \A i \in 1..Len(activities) :
          FloorToHour(fromisoformat(activities[i].hour)) = fromisoformat(activities[i].hour)
    /\ returned # NoCall => \A i \in 1..Len(returned) :
          FloorToHour(returned[i]) = returned[i]

\* the emissions of the process so far that the last handler ended
EmittedTail == (IF lastEmitted = None THEN <<>> ELSE <<lastEmitted>>) \o emitLog

\* C10: missed_hours_changed is emitted exactly when the newly computed count
\* differs from the previously emitted one: no two consecutive emissions
\* carry the same count, and after a reconciliation the latest emission is
\* the current count.
C10_EmitOnlyOnChange ==
    /\ \A i \in 1..(Len(EmittedTail) - 1) : EmittedTail[i] # EmittedTail[i + 1]
    /\ (returned # NoCall /\ EmittedTail # <<>>) =>
          EmittedTail[Len(EmittedTail)] = scheduler.missed_hours_count

\* C11: an hour whose add_activity raised while get_missed_hours() reported
\* it has no entry, and every later get_missed_hours() returns it until it has
\* one, also after later hours were written and refresh_schedule ran.
C11_FailedWriteOfferedAgain ==
    /\ raised = "add_activity" =>
          \E h \in failed \cap Range(lastArg) : ~has_activity_for_hour(activities, h)
    /\ \A h \in failed :
          (~has_activity_for_hour(activities, h) /\ returned # NoCall)
             => h \in Range(returned)

\* a check_schedule call that found no reminder showing and got a result
IdleChecks == {i \in 1..Len(checkLog) :
                 ~checkLog[i].showing /\ checkLog[i].ret # NoCall}

\* C12: a check made while no reminder shows opens one exactly when the
\* reconciler's result is non-empty and the check is forced or the minute is
\* below 5; the reminder opened lists that result and the flag is set.
C12_ShowIffDueAndGated ==
    /\ \A i \in IdleChecks :
          checkLog[i].shown <=>
             /\ checkLog[i].ret # <<>>
             /\ \/ checkLog[i].force
                \/ (clock % HourSecs) \div MinuteSecs < NewHourMinutes
    /\ \A i \in IdleChecks :
          checkLog[i].shown =>
             /\ reminder_showing
             /\ dialogs # <<>>
             /\ dialogs[Len(dialogs)] = checkLog[i].ret

C12_Witness ==
    /\ lastOp = "check_timer"
    /\ raised = ""
    /\ ~checkLog[1].force
    /\ checkLog[1].shown
    /\ reminder_showing

\* hour of the latest entry of tbl, None on an empty table
LastHourOf(tbl) ==
    IF tbl = <<>> THEN None
    ELSE Max({fromisoformat(tbl[i].hour) : i \in 1..Len(tbl)})

\* the hours without an entry in tbl from (last entry + 1h), or from the start
\* of the day on an empty table, up to floor_to_hour(now)
GapsOf(tbl, now) ==
    LET start_check_hour == IF LastHourOf(tbl) = None THEN DayStart(now)
                            ELSE LastHourOf(tbl) + HourSecs
    IN  Sorted({h \in {start_check_hour + k * HourSecs : k \in 0..(DaySecs \div HourSecs)} :
                  /\ h <= FloorToHour(now)
                  /\ \A i \in 1..Len(tbl) : fromisoformat(tbl[i].hour) # h})

\* the step closes a reminder: snooze, or a record that left no hour
Closed ==
    /\ raised' = ""
    /\ \/ lastOp' = "on_snooze"
       \/ lastOp' = "on_record" /\ Len(dialogs') < Len(dialogs)

\* C13: when a reminder is closed reminder_showing is False, the scheduler
\* has reloaded last_recorded_time from the store and recomputed the missed
\* hours, the count is emitted exactly when it differs from the count emitted
\* last, and a forced check made next shows a reminder iff hours are missing.
C13_CloseReturnsToIdle ==
    [][Closed =>
         /\ reminder_showing' = FALSE
         /\ scheduler'.last_recorded_time = LastHourOf(activities')
         /\ returned' = GapsOf(activities', clock')
         /\ scheduler'.missed_hours_count = Len(returned')
         /\ lastOp' = "on_snooze" =>
               emitLog' = IF Len(returned') # lastEmitted'
                          THEN <<Len(returned')>> ELSE <<>>
         /\ LET tail == <<lastEmitted'>> \o emitLog'
            IN  /\ tail[Len(tail)] = Len(returned')
                /\ \A i \in 1..(Len(tail) - 1) : tail[i] # tail[i + 1]
         /\ check_schedule(scheduler', activities', clock', reminder_showing',
                           dialogs', TRUE).log.shown <=> returned' # <<>>]_vars

C13_Witness ==
    /\ lastOp = "on_snooze"
    /\ raised = ""
    /\ ~reminder_showing
    /\ emitLog # <<>>
    /\ Len(returned) > 1

\* C14: after record_activity(hours, text) with a non-empty list returned,
\* last_recorded_time is the maximum of its previous value and max(hours),
\* never lower than before, and the missed hours were recomputed.
C14_LastRecordedTimeIsMax ==
    [][(Recorded /\ lastArg' # <<>>) =>
         /\ scheduler'.last_recorded_time
               = Max({scheduler.last_recorded_time} \cup Range(lastArg'))
         /\ returned' # NoCall]_vars

\* C15: after initialize(), refresh_schedule() or record_activity(),
\* last_recorded_time is the hour of the latest entry of the store and None
\* when the store is empty.
C15_LastRecordedTimeFollowsStore ==
    (/\ raised = ""
     /\ lastOp \in {"start", "on_snooze", "on_record", "on_edit_activity",
                    "on_edit_current_activity"})
    => scheduler.last_recorded_time = LastHourOf(activities)

\* C16: whenever setup_next_hour_timer has run the hourly timer is armed more
\* than one second ahead, for a top of the hour; while the application runs
\* it is armed for no later than the next top of the hour, so that no
\* boundary passes without a firing; a firing makes a forced check.
C16_HourlyTimerEveryBoundary ==
    /\ lastOp \in {"start", "hourly_timer"} =>
          /\ hourly_due - clock > SafetySecs
          /\ hourly_due % HourSecs = 0
    /\ running => hourly_due <= FloorToHour(clock) + HourSecs
    /\ lastOp = "hourly_timer" => checkLog[1].force

\* C17: get_missed_hours() returns the empty list whenever last_recorded_time
\* + 1h is later than floor_to_hour(now); with 09:00 the last recorded hour
\* and the clock at 09:40 it returns the empty list.
C17_NothingDueBeforeNextHour ==
    /\ (/\ returned # NoCall
        /\ scheduler.last_recorded_time # None
        /\ scheduler.last_recorded_time + HourSecs > FloorToHour(clock))
       => returned = <<>>
    /\ (/\ returned # NoCall
        /\ LastHourOf(activities) = At(0, 9, 0)
        /\ clock = At(0, 9, 40))
       => returned = <<>>

C17_Witness ==
    /\ clock = At(0, 9, 40)
    /\ LastHourOf(activities) = At(0, 9, 0)
    /\ scheduler.last_recorded_time = At(0, 9, 0)
    /\ lastOp = "on_edit_activity"
    /\ returned = <<>>

\* C18: only a handler that calls record_activity changes the activities
\* table; start, the timers' checks, the reminder's close, quit and the clock
\* leave it as it is; no step removes a row or changes a row's hour.
C18_ReadsLeaveStoreUnchanged ==
    [][/\ activities' # activities => writes' = writes + 1
       /\ lastOp' \in {"start", "check_timer", "hourly_timer", "on_snooze",
                       "quit", "tick"} => activities' = activities
       /\ \A i \in 1..Len(activities) :
             \E j \in 1..Len(activities') :
                /\ activities'[j].id = activities[i].id
                /\ activities'[j].hour = activities[i].hour]_vars

C18_Witness ==
    /\ lastOp = "on_snooze"
    /\ raised = ""
    /\ returned # NoCall
    /\ Len(activities) = 2

\* the lists that hold exactly the hours of the list hours, in any order,
\* with at most one of them repeated
Arrangements(hours) ==
    {q \in UNION {[1..n -> Range(hours)] : n \in Len(hours)..(Len(hours) + 1)} :
        Range(q) = Range(hours)}

\* the mapping hour -> text a table holds
StoreMap(tbl) == {<<tbl[i].hour, tbl[i].activity>> : i \in 1..Len(tbl)}

\* C19: record_activity gives the same mapping hour -> text, the same number
\* of rows and the same following get_missed_hours() result for every order
\* of its hours list, with or without a repeated hour, as for the sorted list
\* without repetition.
C19_OrderAndDuplicatesIrrelevant ==
    [][Recorded =>
         \A q \in Arrangements(lastArg') :
            \A r \in {record_activity(scheduler, activities, q, lastText', clock)} :
               /\ StoreMap(r.tbl) = StoreMap(activities')
               /\ Len(r.tbl) = Len(activities')
               /\ get_missed_hours(r.s, r.tbl, clock).ret
                     = get_missed_hours(scheduler', activities', clock').ret]_vars

C19_Witness ==
    /\ lastOp = "on_record"
    /\ raised = ""
    /\ Len(lastArg) = 2
    /\ Len(activities) = 2
    /\ dialogs # <<>>

\* C20: an error of a store read does not leave the handler: only
\* add_activity's error propagates.
C20_ReadFailureYieldsDefault ==
    raised \notin {"get_last_activity_time", "has_activity_for_hour"}

\* C21: get_hours_between with start_time later than end_time returns the
\* empty list.
C21_StartAfterEndIsEmpty ==
    (between.start_time # None /\ between.start_time > between.end_time)
        => between.hours = <<>>

\* C22: for start_time <= end_time, get_hours_between returns the consecutive
\* hour starts from floor(start_time) to floor(end_time), and their number is
\* the whole hours of (end_time - start_time) plus one.
C22_LengthIsWholeHoursPlusOne ==
    (between.start_time # None /\ between.start_time <= between.end_time)
        => /\ Len(between.hours)
                = (between.end_time - between.start_time) \div HourSecs + 1
           /\ \A i \in 1..Len(between.hours) :
                 between.hours[i]
                     = FloorToHour(between.start_time) + (i - 1) * HourSecs
           /\ between.hours # <<>>
           /\ between.hours[Len(between.hours)] = FloorToHour(between.end_time)

\* C23: save_analysis(result, label, activities) followed immediately by
\* get_saved_analysis(label', activities') returns the stored result when the
\* label and the activities are the same, and nothing when the label differs
\* or the activities resolve to a different (start, end) range.
C23_LookupAfterSave ==
    [][(lastAnalysis.op = "save_analysis" /\ lastAnalysis'.op = "get_saved_analysis")
          => /\ (/\ lastAnalysis'.date_range = lastAnalysis.date_range
                 /\ lastAnalysis'.activities = lastAnalysis.activities)
                    => lastAnalysis'.ret = lastAnalysis.ret
             /\ (\/ lastAnalysis'.date_range # lastAnalysis.date_range
                 \/ lastAnalysis'.bounds # lastAnalysis.bounds)
                    => lastAnalysis'.ret = NoSaved]_vars

\* the table of _get_date_range_bounds from label to a range relative to now
LabelTable(date_range, now) ==
    CASE date_range = "Today" -> <<DayStart(now), now>>
      [] date_range = "Yesterday" -> <<DayStart(now - DaySecs), DayEnd(now - DaySecs)>>
      [] date_range = "Last Week" -> <<DayStart(now - 7 * DaySecs), now>>
      [] OTHER -> <<DayStart(now - DaySecs), now>>

\* C24: _get_date_range_bounds(label, activities) is [start of day of the
\* earliest activity hour, end of day of the latest] when activities are
\* supplied, and the label table's range relative to now when none are.
C24_BoundsFromActivitiesOrLabel ==
    lastAnalysis.op # "none"
        => lastAnalysis.bounds
             = IF lastAnalysis.activities # {}
               THEN <<DayStart(Min(lastAnalysis.activities)),
                      DayEnd(Max(lastAnalysis.activities))>>
               ELSE LabelTable(lastAnalysis.date_range, clock)

\* C29: an analysis run with force_reload never returns a cached result; with
\* activities to analyse it queries the model, also when older rows exist for
\* the same label with a different resolved range.
C29_ForceReloadNeverCached ==
    (lastAnalysis.op = "run" /\ lastAnalysis.force_reload)
        => /\ ~lastAnalysis.cached
           /\ lastAnalysis.activities # {} => lastAnalysis.queried

\* C25: after Snooze on a reminder while hours are still missing, no reminder
\* is shown during the following 10 minutes: a dialog opened by the step after
\* the snooze is opened at least SnoozeSecs later.
C25_SnoozeHoldsTenMinutes ==
    [][(/\ lastOp = "on_snooze"
        /\ returned # NoCall
        /\ returned # <<>>
        /\ Len(dialogs') > Len(dialogs))
          => clock' >= clock + SnoozeSecs]_vars

\* C26: once the store is non-empty, get_missed_hours() never returns an hour
\* less than or equal to the store's maximum recorded hour, neither in the
\* result a handler just got nor in the result of a call made in any state;
\* recording the latest of several missing hours makes the earlier ones
\* disappear from every later result.
C26_NothingAtOrBelowStoreMax ==
    activities # <<>>
        => /\ returned # NoCall
                => \A i \in 1..Len(returned) : returned[i] > LastHourOf(activities)
           /\ running
                => \A h \in Range(WouldReturn) : h > LastHourOf(activities)

\* the latest hour of a reminder was recorded alone and an earlier hour of the
\* day is still without an entry, and is not returned
C26_Witness ==
    /\ lastOp = "on_record"
    /\ raised = ""
    /\ Len(lastArg) = 1
    /\ lastArg[1] = LastHourOf(activities)
    /\ returned # NoCall
    /\ \E h \in {lastArg[1] - HourSecs, lastArg[1] - 2 * HourSecs} :
          /\ h >= DayStart(clock)
          /\ ~has_activity_for_hour(activities, h)
          /\ h \notin Range(returned)

\* C30: whenever get_missed_hours() returns, missed_hours_count is the length
\* of the returned list: after every handler that called it, and for a call
\* made in any state of the running application; get_missed_hours_count()
\* reports that length, and the comparison refresh_schedule makes after its
\* own get_missed_hours() call finds no difference, so it emits nothing more.
C30_CountIsLengthOfResult ==
    /\ returned # NoCall
          => /\ scheduler.missed_hours_count = Len(returned)
             /\ get_missed_hours_count(scheduler) = Len(returned)
    /\ running
          => /\ \E r \in {get_missed_hours(scheduler, activities, clock)} :
                   /\ r.s.missed_hours_count = Len(r.ret)
                   /\ get_missed_hours_count(r.s) = Len(r.ret)
             /\ \E r \in {refresh_schedule(scheduler, activities, clock)} :
                   /\ r.s.missed_hours_count = Len(r.ret)
                   /\ Len(r.emits) <= 1

\* the 60 s check found missed hours and the count changed to their number
C30_Witness ==
    /\ lastOp = "check_timer"
    /\ raised = ""
    /\ returned # NoCall
    /\ Len(returned) >= 1
    /\ scheduler.missed_hours_count = Len(returned)
    /\ emitLog = <<Len(returned)>>

\* C28: reminder_showing is true exactly when a reminder dialog is open, with
\* dialogs shown by check_schedule or by show_reminder; it is not cleared while
\* another reminder dialog is still open.
C28_FlagIffDialogOpen ==
    reminder_showing <=> dialogs # <<>>

\* hours are missing, no reminder is showing and the top-of-hour timer is due
ForcedCheckDue ==
    /\ running
    /\ ~reminder_showing
    /\ WouldReturn # <<>>
    /\ clock >= hourly_due

====
